---- MODULE Spec2Model ----
(***************************************************************************)
(* The chart controller of connect-js (src/lib/viz/chart/chart.ts) as a    *)
(* state machine: one Chart object, the c3 engine instances it generates,  *)
(* the DOM scaffolds it appends, and the result promises handed to its     *)
(* result handler.                                                         *)
(*                                                                         *)
(* Encoding of JavaScript values:                                          *)
(*   - null / undefined of a nullable scalar is the empty sequence <<>>,   *)
(*     a present value v is <<v>>;                                         *)
(*   - an options object is a function from its keys; a key the object     *)
(*     does not have is a key outside its DOMAIN.                          *)
(***************************************************************************)
EXTENDS Naturals, Sequences, FiniteSets, TLC

VARIABLES
    options,         \* this._options, resolved at construction
    rendered,        \* this._rendered
    chart,           \* this._chart: <<>> or <<the engine object>>
    destroyDom,      \* this._destroyDom: <<>> or <<id of the container/engine it closes over>>
    currentDataset,  \* this._currentDataset: <<>> or <<dataset>>
    engines,         \* every engine instance generated so far, with its scaffold
    pending,         \* result promises handed to the result handler, not yet settled
    calls,           \* number of displayData calls made
    settled,         \* the requests whose promise has settled
    destroys,        \* number of destroy calls made
    handed,          \* the most recent engine load call: whose rows, and the dataset current at the call
    last             \* the most recent operation and its outcome

vars == <<options, rendered, chart, destroyDom, currentDataset, engines,
          pending, calls, settled, destroys, handed, last>>

\* At most this many displayData calls on the controller.
MaxCalls == 2
\* At most this many destroy calls on the controller.
MaxDestroys == 2

Null == <<>>
Some(v) == <<v>>
IsNull(o) == o = <<>>
Val(o) == o[1]

Has(obj, k) == k \in DOMAIN obj
EmptyObject == [x \in {} |-> Null]

(***************************************************************************)
(* Options                                                                 *)
(***************************************************************************)

\* Config.defaultTimeSeriesFormats: the pattern of each interval granularity.
defaultTimeSeriesFormats == [minute |-> "HH:mm", hour |-> "HH:00"]

\* The keys of an options object whose values are themselves plain objects.
ObjectKeys == {"chart", "intervals", "fields", "yAxis", "formats"}

\* this._transitionDuration
transitionDuration == [none |-> Null, some |-> Some(300)]

defaultOptions ==
    [ transitionOnReload |-> TRUE,
      intervals |-> [formats |-> defaultTimeSeriesFormats],
      fields |-> EmptyObject,
      chart |-> [ type |-> "bar",
                  yAxis |-> [valueFormatter |-> "defaultFormatter"],
                  colorModifier |-> "identity" ] ]

\* A merge of the top level only: b's keys over a's, nothing merged below.
deepExtend_Shallow(a, b) ==
    [k \in DOMAIN a \cup DOMAIN b |-> IF k \in DOMAIN b THEN b[k] ELSE a[k]]

\* deepExtend({}, a, b) on plain objects: b's keys over a's, nested objects
\* merged key by key, everything else replaced.
RECURSIVE deepExtend(_, _)
deepExtend(a, b) ==
    [k \in DOMAIN a \cup DOMAIN b |->
        IF k \notin DOMAIN b THEN a[k]
        ELSE IF k \in DOMAIN a /\ k \in ObjectKeys THEN deepExtend(a[k], b[k])
        ELSE b[k]]

parseOptions(chartOptions) == deepExtend(defaultOptions, chartOptions)

\* The options a user may construct the controller with: none, and each
\* option that _loadData reads set on its own.
UserOptions ==
    { EmptyObject,
      [chart |-> [showLegend |-> TRUE]],
      [chart |-> [showLegend |-> FALSE]],
      [transitionOnReload |-> FALSE],
      [timezone |-> "Asia/Tokyo"],
      [intervals |-> [valueFormatter |-> "customDateFormatter"]] }

(***************************************************************************)
(* Query results and datasets                                              *)
(***************************************************************************)

\* The query results a promise may resolve to. `results` are the rows, each
\* given by its bucket/category value; `stray` says that some row carries a
\* select that metadata.selects does not declare.
Shapes ==
    [ selects  : {<<"sell">>, <<"sell", "cost">>},
      groups   : {<<>>, <<"payment">>},
      interval : {Null, Some("minute")},
      timezone : {Some("UTC")},
      results  : {<<"b", "a">>},
      stray    : {FALSE} ]

Plain == [selects |-> <<"sell">>, groups |-> <<>>, interval |-> Null,
          timezone |-> Some("UTC"), results |-> <<"b", "a">>, stray |-> FALSE]

\* Every shape with rows, results without rows, and results with a stray select.
QueryResults ==
    Shapes \cup { [Plain EXCEPT !.results = <<>>], [Plain EXCEPT !.stray = TRUE] }

\* The group values observed in the rows of grouped results.
GroupValues(results) ==
    IF results.groups = <<>> \/ results.results = <<>> THEN <<>> ELSE <<"cash", "card">>

\* new Dataset.ChartDataset(results, formatters) throws on a data-integrity failure.
datasetFails(results) == results.stray

\* dataset.getLabels(): the select alone, or select + group value.
getLabels(results) ==
    IF results.groups = <<>>
    THEN [i \in 1..Len(results.selects) |-> <<results.selects[i]>>]
    ELSE LET gv == GroupValues(results)
             n  == Len(gv)
         IN  [i \in 1..(Len(results.selects) * n) |->
                 <<results.selects[((i - 1) \div n) + 1], gv[((i - 1) % n) + 1]>>]

\* dataset.getData(): one chart row per result row, in the rows' order.
getData(results) == [i \in 1..Len(results.results) |-> [x |-> results.results[i]]]

Range(s) == {s[i] : i \in DOMAIN s}

\* The x values of the rows, last row first.
pluckX_Reversed(data) == [i \in 1..Len(data) |-> data[Len(data) + 1 - i].x]

\* _.pluck(data, '_x')
pluckX(data) == [i \in 1..Len(data) |-> data[i].x]

\* this._buildDataset(results): the dataset of `results`, built for request req.
buildDataset(results, req) == [src |-> req, results |-> results]

(***************************************************************************)
(* The engine (c3) and the DOM                                             *)
(***************************************************************************)

\* c3.generate(config): the engine object, with the configuration that
\* _renderChart gives it and an empty dataset. `hasData` says that data() is
\* not empty, `json` and `keys` are the payload of the latest load call, `src`
\* the request whose results that payload was built from (0: none).
generate(id) ==
    [ id      |-> id,
      config  |-> [ transition_duration |-> transitionDuration.none,
                    legend_show         |-> Null,
                    axis_x_type         |-> "category",
                    axis_x_tick_format  |-> Null,
                    axis_x_categories   |-> <<>> ],
      hasData |-> FALSE,
      json    |-> <<>>,
      keys    |-> <<>>,
      src     |-> 0 ]

\* chart.load({json, keys}): the series of the payload are added to those the
\* engine holds (a payload without rows or without series adds none); the
\* series it held stay.
engineLoad(ch, data, keys, req) ==
    [ch EXCEPT !.hasData = @ \/ (data # <<>> /\ keys # <<>>),
               !.json = data, !.keys = keys, !.src = req]

\* Dom.getDestroyer(container, chart)(): tears the engine down and removes
\* the container from the target element.
teardown(es, id) ==
    [es EXCEPT ![id] = [teardowns |-> @.teardowns + 1, attached |-> FALSE]]

TornDown(ch) == engines[ch.id].teardowns > 0

(***************************************************************************)
(* Chart                                                                   *)
(***************************************************************************)

\* getDefaultLegendVisibility with the interval test left out.
getDefaultLegendVisibility_NoInterval(results) ==
    Len(results.selects) > 1 \/ Len(results.groups) > 0

\* getDefaultLegendVisibility(results)
getDefaultLegendVisibility(results) ==
    LET hasMultipleSelects == Len(results.selects) > 1
        isGroupedInterval  == Len(results.groups) > 0 /\ ~IsNull(results.interval)
    IN  hasMultipleSelects \/ isGroupedInterval

\* showLegend of _loadData
showLegend(results) ==
    IF Has(options.chart, "showLegend") THEN options.chart.showLegend
    ELSE getDefaultLegendVisibility(results)

\* useTransition with && in place of ||.
useTransition_And(ch, reRender) ==
    ch.hasData /\ (options.transitionOnReload /\ ~reRender)

\* useTransition of _loadData, on engine object ch
useTransition(ch, reRender) ==
    ch.hasData /\ (options.transitionOnReload \/ ~reRender)

\* The timezone taken from the metadata first, from the option otherwise.
timezoneOf_MetadataFirst(results) ==
    IF ~IsNull(results.timezone) THEN results.timezone
    ELSE IF Has(options, "timezone") THEN Some(options.timezone) ELSE Null

\* timezone of _loadData
timezoneOf(results) ==
    IF Has(options, "timezone") THEN Some(options.timezone) ELSE results.timezone

\* customDateFormatter || standardDateformatter
tickFormat(results) ==
    IF Has(options.intervals, "valueFormatter")
    THEN [formatter |-> options.intervals.valueFormatter, timezone |-> Null, dateFormat |-> Null]
    ELSE [formatter |-> "formatDate", timezone |-> timezoneOf(results),
          dateFormat |-> Some(options.intervals.formats[Val(results.interval)])]

\* _loadData writing the engine's configuration before it builds the dataset.
loadDataSteps_ConfigureFirst == <<"configure", "build", "axis", "assign", "load">>

\* _loadData assigning the current dataset after the engine's load call.
loadDataSteps_LoadBeforeAssign == <<"build", "configure", "axis", "load", "assign">>

\* The statements of _loadData, in the order the source runs them.
loadDataSteps == <<"build", "configure", "axis", "assign", "load">>

\* One statement group of _loadData on the local state st: the controller's
\* fields it may write (chart, currentDataset), its locals (dataset), what it
\* throws, and the load call it makes. `dead` is what the use of a torn-down
\* engine object does: it throws, or its fields are written like a live one's.
loadDataStep(step, st, results, reRender, req, dead) ==
    LET ch == Val(st.chart) IN
    CASE step = "build" ->
           IF datasetFails(results) THEN [st EXCEPT !.threw = Some("DatasetError")]
           ELSE [st EXCEPT !.dataset = Some(buildDataset(results, req))]
      [] step = "configure" ->
           IF TornDown(ch) /\ dead = "throws" THEN [st EXCEPT !.threw = Some("TypeError")]
           ELSE [st EXCEPT !.chart = Some([ch EXCEPT
                    !.config.transition_duration =
                        IF useTransition(ch, reRender) THEN transitionDuration.some
                        ELSE transitionDuration.none,
                    !.config.legend_show = Some(showLegend(results))])]
      [] step = "axis" ->
           IF ~IsNull(results.interval)
           THEN [st EXCEPT !.chart = Some([ch EXCEPT
                    !.config.axis_x_tick_format = Some(tickFormat(results)),
                    !.config.axis_x_type = "timeseries"])]
           ELSE [st EXCEPT !.chart = Some([ch EXCEPT
                    !.config.axis_x_categories = pluckX(getData(results))])]
      [] step = "assign" ->
           [st EXCEPT !.currentDataset = st.dataset]
      [] step = "load" ->
           [st EXCEPT !.chart = Some(engineLoad(ch, getData(results), getLabels(results), req)),
                      !.handed = [src |-> req, dataset |-> st.currentDataset]]

RECURSIVE runSteps(_, _, _, _, _, _)
runSteps(steps, st, results, reRender, req, dead) ==
    IF steps = <<>> \/ ~IsNull(st.threw) THEN st
    ELSE runSteps(Tail(steps), loadDataStep(Head(steps), st, results, reRender, req, dead),
                  results, reRender, req, dead)

\* What the use of a torn-down engine object does depends on the engine: it
\* throws, or its fields are written like those of a live one.
DeadOutcomes == IF TornDown(Val(chart)) THEN {"throws", "writes"} ELSE {"writes"}

\* _loadData storing the timezone it resolved back into the options.
loadData_StoresTimezone(results, reRender, req) ==
    \E dead \in DeadOutcomes :
    \E st \in { runSteps(loadDataSteps,
                          [chart |-> chart, currentDataset |-> currentDataset,
                           handed |-> handed, dataset |-> Null, threw |-> Null],
                          results, reRender, req, dead) } :
        /\ options' = IF IsNull(timezoneOf(results)) THEN options
                      ELSE deepExtend(options, [timezone |-> Val(timezoneOf(results))])
        /\ chart' = st.chart
        /\ currentDataset' = st.currentDataset
        /\ handed' = st.handed
        /\ last' = [op |-> "load", req |-> req, threw |-> st.threw,
                    stale |-> Val(chart).src > req]
        /\ UNCHANGED <<rendered, destroyDom, engines, calls, destroys>>

\* this._loadData(results, reRender), for the results of request req.
loadData(results, reRender, req) ==
    \E dead \in DeadOutcomes :
    \E st \in { runSteps(loadDataSteps,
                          [chart |-> chart, currentDataset |-> currentDataset,
                           handed |-> handed, dataset |-> Null, threw |-> Null],
                          results, reRender, req, dead) } :
        /\ chart' = st.chart
        /\ currentDataset' = st.currentDataset
        /\ handed' = st.handed
        /\ last' = [op |-> "load", req |-> req, threw |-> st.threw,
                    stale |-> Val(chart).src > req]
        /\ UNCHANGED <<options, rendered, destroyDom, engines, calls, destroys>>

\* dataset.getContext(point): the context of the series the point belongs to,
\* none for a point of no series of the dataset.
getContext(dataset, point) ==
    IF point.id \in Range(getLabels(dataset.results))
    THEN Some([select |-> point.id[1], label |-> point.id])
    ELSE Null

\* colorModifier(currentColor, context), for the modifier named fn.
applyColorModifier(fn, currentColor, context) ==
    IF fn = "identity" THEN currentColor
    ELSE [currentColor EXCEPT !.by = Some([fn |-> fn, context |-> context])]

\* this._modifyColor(currentColor, datum): what it returns, Null when it
\* returns no value.
modifyColor(currentColor, datum) ==
    LET colorModifier == options.chart.colorModifier
        dataset       == Val(currentDataset)
        contexts      == IF Has(datum, "values")
                         THEN Some([i \in DOMAIN datum.values |->
                                       getContext(dataset, datum.values[i])])
                         ELSE getContext(dataset, datum)
    IN  IF ~IsNull(contexts)
        THEN Some(applyColorModifier(colorModifier, currentColor, Val(contexts)))
        ELSE Null

\* dataset.getSelect(label): the select of the series with that label, none
\* for a label of no series of the dataset.
getSelect(dataset, label) ==
    IF label \in Range(getLabels(dataset.results)) THEN Some(label[1]) ELSE Null

\* Config.defaulField: the field options of a field without an entry.
defaulField == EmptyObject

\* options.fields[name] || Config.defaulField, for a name that may be undefined
fieldOption(name) ==
    IF ~IsNull(name) /\ Has(options.fields, Val(name)) THEN options.fields[Val(name)]
    ELSE defaulField

\* valueFormatter(value), for the formatter named fn: the value as that
\* formatter displays it. A value no formatter was applied to has by = Null.
applyFormatter(fn, value) == [value |-> value, by |-> Some(fn)]
Unformatted(value) == [value |-> value, by |-> Null]

\* _formatValueForLabel looking up the field of the dataset's first select.
formatValueForLabel_FirstSelect(label, value) ==
    LET fo == fieldOption(Some(Val(currentDataset).results.selects[1]))
    IN  IF Has(fo, "valueFormatter") THEN applyFormatter(fo.valueFormatter, value)
        ELSE Unformatted(value)

\* this._formatValueForLabel(label, value)
formatValueForLabel(label, value) ==
    LET select         == getSelect(Val(currentDataset), label)
        fieldOptionOf  == fieldOption(select)
    IN  IF Has(fieldOptionOf, "valueFormatter")
        THEN applyFormatter(fieldOptionOf.valueFormatter, value)
        ELSE Unformatted(value)

\* selectLabelFormatter of _buildDataset
selectLabelFormatter(select) ==
    LET fo == fieldOption(Some(select))
    IN  IF Has(fo, "label") THEN fo.label ELSE select

\* _renderChart marking the controller rendered and leaving the scaffold and
\* the engine for later.
renderChart_Deferred ==
    /\ rendered' = TRUE
    /\ UNCHANGED <<chart, destroyDom, engines>>

\* this._renderChart()
renderChart ==
    IF rendered
    THEN UNCHANGED <<rendered, chart, destroyDom, engines>>
    ELSE LET id == Len(engines) + 1 IN
         /\ engines' = Append(engines, [teardowns |-> 0, attached |-> TRUE])
         /\ rendered' = TRUE
         /\ chart' = Some(generate(id))
         /\ destroyDom' = Some(id)

\* this._resultHandler.handleResult(resultsPromise, this, this._loadData, reRender):
\* the promise of request req is awaited.
handleResult(req, reRender) ==
    pending' = pending \cup {[req |-> req, reRender |-> reRender]}

\* displayData dropping the promises still pending when it is called again.
displayData_LatestOnly(reRender) ==
    /\ calls < MaxCalls
    /\ renderChart
    /\ pending' = {[req |-> calls + 1, reRender |-> reRender]}
    /\ calls' = calls + 1
    /\ last' = [op |-> "displayData", req |-> calls + 1, threw |-> Null]
    /\ UNCHANGED <<options, currentDataset, settled, destroys, handed>>

\* displayData(resultsPromise, reRender)
displayData(reRender) ==
    /\ calls < MaxCalls
    /\ renderChart
    /\ handleResult(calls + 1, reRender)
    /\ calls' = calls + 1
    /\ last' = [op |-> "displayData", req |-> calls + 1, threw |-> Null]
    /\ UNCHANGED <<options, currentDataset, settled, destroys, handed>>

\* The promise of a pending request resolves: the result handler calls
\* _loadData with the results it resolved to.
resolve(f, results) ==
    /\ f \in pending
    /\ pending' = pending \ {f}
    /\ settled' = settled \cup {f.req}
    /\ loadData(results, f.reRender, f.req)

\* The promise of a pending request is rejected: the result handler shows the
\* error and the chart is left alone.
reject(f) ==
    /\ f \in pending
    /\ pending' = pending \ {f}
    /\ settled' = settled \cup {f.req}
    /\ last' = [op |-> "reject", req |-> f.req, threw |-> Null]
    /\ UNCHANGED <<options, rendered, chart, destroyDom, currentDataset, engines,
                   calls, destroys, handed>>

\* destroy()
destroy ==
    /\ destroys < MaxDestroys
    /\ destroys' = destroys + 1
    /\ rendered' = FALSE
    /\ IF IsNull(destroyDom)
       THEN /\ last' = [op |-> "destroy", threw |-> Some("TypeError")]
            /\ UNCHANGED engines
       ELSE /\ last' = [op |-> "destroy", threw |-> Null]
            /\ engines' = teardown(engines, Val(destroyDom))
    /\ UNCHANGED <<options, chart, destroyDom, currentDataset, pending, calls, settled,
                   handed>>

\* recalculateSize()
recalculateSize ==
    /\ last' = [op |-> "recalculateSize",
                threw |-> IF IsNull(chart) THEN Some("TypeError") ELSE Null]
    /\ UNCHANGED <<options, rendered, chart, destroyDom, currentDataset, engines,
                   pending, calls, settled, destroys, handed>>

\* The palette colours the engine passes to the color callback.
Colors == {[name |-> "#1f77b4", by |-> Null]}

\* The data the engine passes to the color callback once a dataset is loaded:
\* a point of a series of the dataset or of none, or a datum with an array of
\* such points.
Points ==
    IF IsNull(currentDataset) THEN {}
    ELSE {[id |-> l] : l \in Range(getLabels(Val(currentDataset).results)) \cup {<<"other">>}}
Data == Points \cup {[values |-> vs] : vs \in {<<>>} \cup {<<p, q>> : p, q \in Points}}

\* The engine, while it is live, calls config.data.color(color, datum).
colorCallback(color, datum) ==
    /\ ~IsNull(currentDataset)
    /\ ~TornDown(Val(chart))
    /\ last' = [op |-> "color", color |-> color, datum |-> datum,
                ret |-> modifyColor(color, datum), threw |-> Null]
    /\ UNCHANGED <<options, rendered, chart, destroyDom, currentDataset, engines,
                   pending, calls, settled, destroys, handed>>

\* The values of the points the engine shows a tooltip for.
Values == {0, 12}

\* The engine, while it is live, calls config.tooltip.format.value(value,
\* ratio, id, index) for a point of one of the series it was loaded with.
tooltipCallback(id, value) ==
    /\ ~IsNull(currentDataset)
    /\ ~TornDown(Val(chart))
    /\ id \in Range(Val(chart).keys)
    /\ last' = [op |-> "tooltip", id |-> id, value |-> value,
                ret |-> formatValueForLabel(id, value), threw |-> Null]
    /\ UNCHANGED <<options, rendered, chart, destroyDom, currentDataset, engines,
                   pending, calls, settled, destroys, handed>>

\* The current dataset calls formatters.selectLabelFormatter(select) for the
\* legend caption of one of its selects.
selectLabelCallback(select) ==
    /\ ~IsNull(currentDataset)
    /\ select \in Range(Val(currentDataset).results.selects)
    /\ last' = [op |-> "selectLabel", select |-> select,
                ret |-> selectLabelFormatter(select), threw |-> Null]
    /\ UNCHANGED <<options, rendered, chart, destroyDom, currentDataset, engines,
                   pending, calls, settled, destroys, handed>>

\* new Chart(targetElement, chartOptions)
constructor(chartOptions) ==
    /\ options = parseOptions(chartOptions)
    /\ rendered = FALSE
    /\ chart = Null
    /\ destroyDom = Null
    /\ currentDataset = Null
    /\ engines = <<>>
    /\ pending = {}
    /\ calls = 0
    /\ settled = {}
    /\ destroys = 0
    /\ handed = [src |-> 0, dataset |-> Null]
    /\ last = [op |-> "new", chartOptions |-> chartOptions, threw |-> Null]

Init == \E chartOptions \in UserOptions : constructor(chartOptions)

Next ==
    \/ \E reRender \in BOOLEAN : displayData(reRender)
    \/ \E f \in pending, results \in QueryResults : resolve(f, results)
    \/ \E f \in pending : reject(f)
    \/ destroy

Spec == Init /\ [][Next]_vars

(***************************************************************************)
(* The callbacks and read-only operations, on a controller that is         *)
(* constructed with any of the options, displays one result set, is called *)
(* back by the engine, and is destroyed.                                   *)
(***************************************************************************)

\* Options with nested keys: each of the chart, intervals and fields objects
\* left out or given with some of its keys, next to top-level keys.
ChartObjects ==
    { [type |-> "line"],
      [colorModifier |-> "highlight"],
      [yAxis |-> [valueFormatter |-> "currency"]],
      [yAxis |-> [startAtZero |-> TRUE]],
      [type |-> "area", showLegend |-> FALSE, yAxis |-> EmptyObject] }
IntervalObjects ==
    { [formats |-> [minute |-> "mm"]],
      [formats |-> [day |-> "DD/MM"], valueFormatter |-> "customDateFormatter"] }
FieldObjects ==
    { [sell |-> [label |-> "Sales", valueFormatter |-> "currency"]],
      [sell |-> [label |-> "Sales"]],
      [cost |-> [valueFormatter |-> "currency"]] }
NestedOptions ==
    { c @@ i @@ f @@ t :
        c \in {EmptyObject} \cup {[chart |-> o] : o \in ChartObjects},
        i \in {EmptyObject} \cup {[intervals |-> o] : o \in IntervalObjects},
        f \in {EmptyObject} \cup {[fields |-> o] : o \in FieldObjects},
        t \in {EmptyObject, [transitionOnReload |-> TRUE], [timezone |-> "Asia/Tokyo"]} }

\* The selects of the query results.
Selects == {"sell", "cost"}

\* The options of such a controller: those above, and those with nested keys.
CallbackOptions == UserOptions \cup NestedOptions

InitCallbacks == \E chartOptions \in CallbackOptions : constructor(chartOptions)

NextCallbacks ==
    \/ \E reRender \in BOOLEAN : calls = 0 /\ displayData(reRender)
    \/ \E f \in pending, results \in QueryResults : resolve(f, results)
    \/ \E color \in Colors : \E datum \in Data : colorCallback(color, datum)
    \/ \E id \in {<<s>> : s \in Selects} \cup {<<s, g>> : s \in Selects, g \in {"cash", "card"}} :
          \E value \in Values : tooltipCallback(id, value)
    \/ \E select \in Selects : selectLabelCallback(select)
    \/ recalculateSize
    \/ destroy

SpecCallbacks == InitCallbacks /\ [][NextCallbacks]_vars

(***************************************************************************)
(* Connect.push (src/lib/core/connect.ts). A JavaScript value that push may *)
(* be given is a record with its type t and, but for undefined and null,   *)
(* its value: the characters s of a string, the elements a of an array,    *)
(* the keys and values o of an object.                                     *)
(***************************************************************************)

Undefined == [t |-> "undefined"]
JsNull    == [t |-> "null"]
Str(v)    == [t |-> "string", s |-> v]
Arr(v)    == [t |-> "array", a |-> v]
Obj(v)    == [t |-> "object", o |-> v]

\* _.isArray(x), _.isString(x)
isArray(x)  == x.t = "array"
isString(x) == x.t = "string"

\* The events pushed.
Events == {Obj([id |-> 1]), Obj([id |-> 2])}

\* What a caller may pass as collectionNameOrBatches: a collection name, a
\* batch object, or a value that is neither.
FirstArguments ==
    {Str(c) : c \in {"purchases", "refunds", ""}}
        \cup {Obj([c \in cs |-> Arr(<<e>>)]) : cs \in SUBSET {"purchases", "refunds"}, e \in Events}
        \cup {Undefined, JsNull, Arr(<<>>)}

\* What a caller may pass as eventOrEvents: nothing, one event, an array of
\* events, or a value that is neither.
SecondArguments ==
    {Undefined, JsNull, Str("purchases")}
        \cup Events
        \cup {Arr(<<>>)}
        \cup {Arr(<<e>>) : e \in Events}
        \cup {Arr(<<e, f>>) : e, f \in Events}

\* this._buildBatchFromArray(collection, events)
buildBatchFromArray(collection, events) == Obj([c \in {collection.s} |-> events])

\* isBatch taken from the second argument alone.
isBatch_ArrayOnly(hasCollectionName, hasMultipleEvents) == hasMultipleEvents

\* isBatch of push
isBatch(hasCollectionName, hasMultipleEvents) == ~hasCollectionName \/ hasMultipleEvents

\* push(collectionNameOrBatches, eventOrEvents): the calls it makes on
\* this._client, in order.
push(collectionNameOrBatches, eventOrEvents) ==
    LET hasMultipleEvents == isArray(eventOrEvents)
        hasCollectionName == isString(collectionNameOrBatches)
        batch == IF isBatch(hasCollectionName, hasMultipleEvents) /\ hasCollectionName
                 THEN buildBatchFromArray(collectionNameOrBatches, eventOrEvents)
                 ELSE collectionNameOrBatches
    IN  IF isBatch(hasCollectionName, hasMultipleEvents)
        THEN <<[method |-> "pushBatch", args |-> <<batch>>]>>
        ELSE <<[method |-> "push", args |-> <<collectionNameOrBatches, eventOrEvents>>]>>

\* A caller calls connect.push(a, b).
connectPush(a, b) ==
    /\ last' = [op |-> "push", args |-> <<a, b>>, clientCalls |-> push(a, b),
                threw |-> Null]
    /\ UNCHANGED <<options, rendered, chart, destroyDom, currentDataset, engines,
                   pending, calls, settled, destroys, handed>>

\* A page with a Connect client, and a controller that is left alone.
InitConnect == constructor(EmptyObject)

NextConnect == \E a \in FirstArguments, b \in SecondArguments : connectPush(a, b)

SpecConnect == InitConnect /\ [][NextConnect]_vars

(***************************************************************************)
(* Claims                                                                  *)
(***************************************************************************)

\* The pending request that the load recorded in last' is for (in a step).
LoadedRequest == CHOOSE f \in pending : f.req = last'.req

\* C1: over the controller's lifetime, whatever displayData and destroy calls
\* are made, the scaffold is appended and the engine generated at most once.
C1_RenderedAtMostOnce == Len(engines) <= 1

\* C2: once destroy() has been called, a displayData call raises an error
\* and does not bring the controller back to Rendered.
C2_DestroyedIsTerminal ==
    (last.op = "displayData" /\ \E i \in DOMAIN engines : engines[i].teardowns > 0)
        => (~IsNull(last.threw) /\ ~rendered)

\* C3: a result that arrives for a controller whose engine has been torn down
\* is ignored: the load throws nothing, leaves the engine object (its
\* configuration and data) as it was, and makes no load call.
C3_LateResultIgnored ==
    [][(last'.op = "load" /\ TornDown(Val(chart)))
          => (IsNull(last'.threw) /\ chart' = chart /\ handed' = handed)]_vars

\* C4: a load sets the engine's transition duration to 300 exactly when the
\* engine held data before the load and (transitionOnReload is true or
\* reRender is false), and to none otherwise; the first load into a freshly
\* generated engine sets it to none.
C4_TransitionRule ==
    [][(last'.op = "load" /\ IsNull(last'.threw))
          => LET before   == Val(chart)
                 reRender == LoadedRequest.reRender
                 duration == Val(chart').config.transition_duration
             IN  /\ duration = IF before.hasData /\ (options.transitionOnReload \/ ~reRender)
                               THEN <<300>> ELSE <<>>
                 /\ before.src = 0 => duration = <<>>]_vars

\* C4's case: a load that animates.
C4_Witness ==
    /\ last.op = "load" /\ IsNull(last.threw)
    /\ Val(chart).config.transition_duration = <<300>>

\* C5: after a load the legend is shown as chart.showLegend says when that
\* option is set; when it is not, it is shown exactly when the results have
\* more than one select, or have groups and an interval.
C5_LegendRule ==
    (last.op = "load" /\ IsNull(last.threw))
        => LET r == Val(currentDataset).results
               shown == Val(chart).config.legend_show
           IN  IF "showLegend" \in DOMAIN options.chart
               THEN shown = <<options.chart.showLegend>>
               ELSE shown = <<(Len(r.selects) > 1
                               \/ (r.groups # <<>> /\ r.interval # <<>>))>>

\* C5's case: no showLegend option, one select, grouped by interval: shown.
C5_Witness ==
    /\ last.op = "load" /\ IsNull(last.threw)
    /\ "showLegend" \notin DOMAIN options.chart
    /\ Len(Val(currentDataset).results.selects) = 1
    /\ Val(currentDataset).results.groups # <<>>
    /\ Val(currentDataset).results.interval # <<>>
    /\ Val(chart).config.legend_show = <<TRUE>>

\* C6: after every load the x-axis type is the time axis if the results just
\* loaded have an interval, and the category axis otherwise.
C6_AxisTypeOfLatestLoad ==
    (last.op = "load" /\ IsNull(last.threw))
        => Val(chart).config.axis_x_type =
              IF Val(currentDataset).results.interval # <<>> THEN "timeseries"
              ELSE "category"

\* C7: a load whose dataset build fails leaves the current dataset, the engine
\* object (configuration and data) and the rendered state as they were, and
\* the load that follows it on the live engine fails only if its own build
\* fails, and otherwise puts its data on the chart.
C7_FailedLoadChangesNothing ==
    [][/\ (last'.op = "load" /\ last'.threw = <<"DatasetError">>)
           => /\ chart' = chart /\ currentDataset' = currentDataset
              /\ rendered' = rendered /\ engines' = engines
              /\ destroyDom' = destroyDom /\ handed' = handed
       /\ (last.op = "load" /\ last.threw = <<"DatasetError">>
            /\ last'.op = "load" /\ ~TornDown(Val(chart)))
           => \/ last'.threw = <<"DatasetError">>
              \/ /\ IsNull(last'.threw)
                 /\ Val(chart').src = last'.req
                 /\ Val(chart').json = getData(Val(currentDataset').results)
                 /\ Val(currentDataset').src = last'.req]_vars

\* C7's case: a build failed while the chart was showing data of an earlier load.
C7_Witness ==
    /\ last.op = "load" /\ last.threw = <<"DatasetError">>
    /\ rendered /\ Val(chart).src # 0 /\ ~IsNull(currentDataset)

\* C8: the color callback returns colorModifier(currentColor, context) when
\* a context is resolved for the datum (one context for a point, the sequence
\* of its values' contexts for an array datum), and currentColor when none
\* is; it always returns a value.
C8_ColorFallback ==
    last.op = "color"
        => LET fn == options.chart.colorModifier
               ds == Val(currentDataset)
           IN  IF "values" \in DOMAIN last.datum
               THEN last.ret = <<applyColorModifier(fn, last.color,
                                     [i \in DOMAIN last.datum.values |->
                                         getContext(ds, last.datum.values[i])])>>
               ELSE IF getContext(ds, last.datum) # <<>>
               THEN last.ret = <<applyColorModifier(fn, last.color,
                                                    getContext(ds, last.datum)[1])>>
               ELSE last.ret = <<last.color>>

\* C9: from an engine load call onwards the current dataset is the one built
\* from the results whose rows that call handed to the engine, it was already
\* current when the call was made, and only a load that succeeds changes it.
C9_DatasetOfLatestLoad ==
    /\ [](handed.src # 0
            => /\ ~IsNull(currentDataset)
               /\ handed.dataset = currentDataset
               /\ Val(currentDataset).src = handed.src)
    /\ [][currentDataset' # currentDataset
            => /\ last'.op = "load" /\ IsNull(last'.threw)
               /\ ~IsNull(currentDataset')
               /\ Val(currentDataset').src = last'.req
               /\ Val(chart').json = getData(Val(currentDataset').results)]_vars

\* C9's case: a second load has replaced the dataset of the first.
C9_Witness ==
    /\ last.op = "load" /\ IsNull(last.threw)
    /\ settled = {1, 2}
    /\ handed.src = last.req
    /\ Val(currentDataset).src = last.req

\* C10: no promise handed to displayData is dropped, and every load that
\* returns leaves its own request's data and dataset on the chart, also when
\* a later request's data was loaded before it.
C10_NoFence ==
    /\ \A r \in 1..calls : r \in settled \/ \E f \in pending : f.req = r
    /\ (last.op = "load" /\ IsNull(last.threw))
          => /\ Val(chart).src = last.req
             /\ Val(currentDataset).src = last.req
             /\ Val(chart).json = getData(Val(currentDataset).results)

\* C10's case: request 1 settles after request 2 and its data is on the chart.
C10_Witness ==
    /\ last.op = "load" /\ IsNull(last.threw) /\ last.stale
    /\ last.req = 1 /\ pending = {} /\ calls = 2
    /\ Val(chart).src = 1 /\ Val(currentDataset).src = 1

\* C11: the options resolved at construction have, at every level, the keys
\* the user supplied and the default keys; each key the user supplied has the
\* user's value and each other key its default: chart.type "bar",
\* chart.yAxis.valueFormatter and chart.colorModifier the identity functions,
\* transitionOnReload true, fields empty, intervals.formats the default table.
\* A nested object the user supplies is merged with the defaults key by key.
C11_ResolvedOptions ==
    last.op = "new"
        => LET Sub(o, k)     == IF k \in DOMAIN o THEN o[k] ELSE [x \in {} |-> <<>>]
               Pick(o, k, d) == IF k \in DOMAIN o THEN o[k] ELSE d
               u  == last.chartOptions
               uc == Sub(u, "chart")
               uy == Sub(uc, "yAxis")
               ui == Sub(u, "intervals")
               uf == Sub(ui, "formats")
           IN  /\ DOMAIN options =
                     DOMAIN u \cup {"transitionOnReload", "intervals", "fields", "chart"}
               /\ DOMAIN options.chart = DOMAIN uc \cup {"type", "yAxis", "colorModifier"}
               /\ DOMAIN options.chart.yAxis = DOMAIN uy \cup {"valueFormatter"}
               /\ DOMAIN options.intervals = DOMAIN ui \cup {"formats"}
               /\ DOMAIN options.intervals.formats = DOMAIN uf \cup {"minute", "hour"}
               /\ options.transitionOnReload = Pick(u, "transitionOnReload", TRUE)
               /\ options.fields = Sub(u, "fields")
               /\ options.chart.type = Pick(uc, "type", "bar")
               /\ options.chart.colorModifier = Pick(uc, "colorModifier", "identity")
               /\ options.chart.yAxis.valueFormatter =
                     Pick(uy, "valueFormatter", "defaultFormatter")
               /\ options.intervals.formats.minute = Pick(uf, "minute", "HH:mm")
               /\ options.intervals.formats.hour = Pick(uf, "hour", "HH:00")
               /\ \A k \in DOMAIN u \ {"chart", "intervals", "fields"} : options[k] = u[k]
               /\ \A k \in DOMAIN uc \ {"yAxis"} : options.chart[k] = uc[k]
               /\ \A k \in DOMAIN uy : options.chart.yAxis[k] = uy[k]
               /\ \A k \in DOMAIN ui \ {"formats"} : options.intervals[k] = ui[k]
               /\ \A k \in DOMAIN uf : options.intervals.formats[k] = uf[k]

\* C11's case: the user supplied chart.type and one interval format, and the
\* sibling defaults are still there.
C11_Witness ==
    /\ last.op = "new"
    /\ "chart" \in DOMAIN last.chartOptions
    /\ DOMAIN last.chartOptions.chart = {"type"}
    /\ "intervals" \in DOMAIN last.chartOptions
    /\ DOMAIN last.chartOptions.intervals.formats = {"minute"}
    /\ options.chart.type = "line"
    /\ options.chart.colorModifier = "identity"
    /\ options.chart.yAxis.valueFormatter = "defaultFormatter"
    /\ options.intervals.formats = [minute |-> "mm", hour |-> "HH:00"]

\* C12: no step of the controller (displayData, a load, a callback of the
\* engine, recalculateSize, destroy) changes the options resolved at
\* construction.
C12_OptionsFixed == [][options' = options]_vars

\* C12's case: a controller constructed with chart.type "line" after a load
\* and a destroy, its options as they were resolved.
C12_Witness ==
    /\ last.op = "destroy" /\ IsNull(last.threw)
    /\ settled = {1} /\ handed.src = 1
    /\ options = parseOptions([chart |-> [type |-> "line"]])

\* C13: after a load of results with an interval, the x-axis tick formatter is
\* the intervals.valueFormatter option when that is set; otherwise it is the
\* standard date formatter with the pattern intervals.formats[interval] and
\* with the timezone option when that is set, the metadata's timezone when
\* it is not.
C13_TickFormatter ==
    (/\ last.op = "load" /\ IsNull(last.threw)
     /\ Val(currentDataset).results.interval # <<>>)
        => LET r == Val(currentDataset).results
               f == Val(chart).config.axis_x_tick_format
           IN  /\ f # <<>>
               /\ IF "valueFormatter" \in DOMAIN options.intervals
                  THEN f[1].formatter = options.intervals.valueFormatter
                  ELSE /\ f[1].formatter = "formatDate"
                       /\ f[1].dateFormat = <<options.intervals.formats[r.interval[1]]>>
                       /\ f[1].timezone = IF "timezone" \in DOMAIN options
                                          THEN <<options.timezone>>
                                          ELSE r.timezone

\* C13's case: the timezone option is set, the metadata has another timezone,
\* and the standard formatter has the option's.
C13_Witness ==
    /\ last.op = "load" /\ IsNull(last.threw)
    /\ Val(currentDataset).results.interval = <<"minute">>
    /\ Val(currentDataset).results.timezone = <<"UTC">>
    /\ "timezone" \in DOMAIN options
    /\ Val(chart).config.axis_x_tick_format =
          <<[formatter |-> "formatDate", timezone |-> <<"Asia/Tokyo">>,
             dateFormat |-> <<"HH:mm">>]>>

\* C14: the tooltip value of a point of series id is the value as displayed by
\* fields[select].valueFormatter, select being the select of that series in
\* the current dataset, and the value itself when fields has no entry for the
\* select or the entry has no valueFormatter; the legend caption of a select
\* is fields[select].label when that is set, the select's name otherwise.
C14_FieldFormatting ==
    /\ last.op = "tooltip"
          => LET select == last.id[1]
                 set    == /\ select \in DOMAIN options.fields
                           /\ "valueFormatter" \in DOMAIN options.fields[select]
             IN  /\ last.id \in Range(getLabels(Val(currentDataset).results))
                 /\ last.ret.value = last.value
                 /\ last.ret.by = IF set THEN <<options.fields[select].valueFormatter>>
                                  ELSE <<>>
    /\ last.op = "selectLabel"
          => last.ret = IF /\ last.select \in DOMAIN options.fields
                           /\ "label" \in DOMAIN options.fields[last.select]
                        THEN options.fields[last.select].label
                        ELSE last.select

\* C14's case: two selects, grouped; only the second has a valueFormatter and
\* the tooltip of one of its series is formatted with it.
C14_Witness ==
    /\ last.op = "tooltip"
    /\ last.id = <<"cost", "card">>
    /\ Val(currentDataset).results.selects = <<"sell", "cost">>
    /\ "sell" \notin DOMAIN options.fields
    /\ last.ret = [value |-> 12, by |-> <<"currency">>]

\* C15: after a load the payload the engine was given is the rows of the
\* current dataset (each with its x value) and the dataset's series labels as
\* value keys; when the results have no interval the engine's x-axis
\* categories are the x values of those rows, as many and in the same order.
C15_PayloadAndCategories ==
    (last.op = "load" /\ IsNull(last.threw))
        => LET ds   == Val(currentDataset)
               ch   == Val(chart)
               rows == getData(ds.results)
               cats == ch.config.axis_x_categories
           IN  /\ handed.src = last.req /\ ch.src = last.req
               /\ ch.json = rows
               /\ \A i \in DOMAIN rows : "x" \in DOMAIN rows[i]
               /\ ch.keys = getLabels(ds.results)
               /\ ds.results.interval = <<>>
                     => /\ Len(cats) = Len(rows)
                        /\ \A i \in 1..Len(rows) : cats[i] = rows[i].x

\* C15's case: results without interval, two rows and two selects, loaded.
C15_Witness ==
    /\ last.op = "load" /\ IsNull(last.threw)
    /\ Val(currentDataset).results.interval = <<>>
    /\ Val(chart).json = <<[x |-> "b"], [x |-> "a"]>>
    /\ Val(chart).keys = <<(<<"sell">>), (<<"cost">>)>>
    /\ Val(chart).config.axis_x_categories = <<"b", "a">>

\* C16: whenever a promise handed to displayData is awaited, and whenever a
\* load has run, an engine instance has been generated and the controller
\* holds it: displayData generates it before it hands the promise on, so a
\* load never runs on a controller that was never rendered.
C16_EngineBeforeLoad ==
    (pending # {} \/ settled # {} \/ last.op = "load")
        => /\ calls >= 1
           /\ Len(engines) >= 1
           /\ ~IsNull(chart)
           /\ ~IsNull(destroyDom)
           /\ Val(chart).id \in DOMAIN engines

\* C16's case: the promise of the first displayData resolved while that of
\* the second is still awaited, and the load ran on the engine generated by
\* the first call.
C16_Witness ==
    /\ last.op = "load" /\ IsNull(last.threw) /\ last.req = 1
    /\ calls = 2 /\ \E f \in pending : f.req = 2
    /\ Len(engines) = 1 /\ Val(chart).id = 1 /\ Val(chart).src = 1

\* C17: no engine instance (with its scaffold) is torn down more than once,
\* and no destroy call fails: destroy runs the teardown only when there is
\* one that has not run yet.
C17_TeardownAtMostOnce ==
    /\ \A i \in DOMAIN engines : engines[i].teardowns <= 1
    /\ last.op = "destroy" => IsNull(last.threw)

\* C18: a push makes exactly one call on the client. It is push(collection,
\* event), with both arguments as given, exactly when the first argument is a
\* string and the second is not an array. Otherwise it is pushBatch: of the
\* object with the one key `collection` holding the events when the first
\* argument is a string, and of the first argument as given when it is not.
C18_PushDispatch ==
    last.op = "push"
        => LET a    == last.args[1]
               b    == last.args[2]
               made == last.clientCalls
               Same(x, y) == x.t = y.t /\ x = y
           IN  /\ Len(made) = 1
               /\ IF a.t = "string" /\ b.t # "array"
                  THEN /\ made[1].method = "push"
                       /\ Len(made[1].args) = 2
                       /\ Same(made[1].args[1], a)
                       /\ Same(made[1].args[2], b)
                  ELSE /\ made[1].method = "pushBatch"
                       /\ Len(made[1].args) = 1
                       /\ IF a.t = "string"
                          THEN /\ made[1].args[1].t = "object"
                               /\ DOMAIN made[1].args[1].o = {a.s}
                               /\ Same(made[1].args[1].o[a.s], b)
                          ELSE Same(made[1].args[1], a)

\* C18's case: a collection name and an array of two events, pushed as one
\* batch.
C18_Witness ==
    /\ last.op = "push"
    /\ last.args[1].t = "string" /\ last.args[1].s = "purchases"
    /\ last.args[2].t = "array" /\ Len(last.args[2].a) = 2
    /\ last.clientCalls =
          <<[method |-> "pushBatch",
             args |-> <<[t |-> "object", o |-> [purchases |-> last.args[2]]]>>]>>

====
